---- MODULE Spec2Model ----
(***************************************************************************)
(* Model of uploader.py (minut2influx): the k-way merge of async           *)
(* generators (merge_sequences), the per-source paginated generator        *)
(* (measurement_sequence over month_sequence), the batching consumer       *)
(* (download_devices), the resume state (download) and dict_get.           *)
(*                                                                         *)
(* An async generator is a record with a program counter:                  *)
(*   "created"   not started yet                                           *)
(*   "suspended" stopped at a yield, cur = <<the yielded value>>           *)
(*   "finished"  raised StopAsyncIteration                                 *)
(*   "raised"    raised another exception                                  *)
(*   anything else: running, at that place of its body.                    *)
(* Python's None is the empty sequence <<>>, a value v is <<v>>.           *)
(***************************************************************************)
EXTENDS Integers, Sequences, FiniteSets, TLC

\* Bounds of the merge-only specification.
MaxGens == 2
MaxRecords == 4
MaxTs == 2

\* Bounds of the pipeline specifications.
TicksPerDay == 2    \* resolution of the modelled clock
MaxHistory == 3     \* records the remote service holds in all

VARIABLES
    remote,       \* the remote service: the set of (device, measurement, timestamp) it holds
    devices,      \* the remote service: its device list
    stateFile,    \* the state file: None (no file) or its JSON document
    state,        \* download: the in-memory state dict
    args,         \* download: args.start_time and args.end_time of the current run
    run,          \* number of the current run of download (0 before the first)
    dpc,          \* download / download_devices: program counter
    influx_data,  \* download_devices: the batch being accumulated
    sink,         \* every write_points call so far: its run and its points
    generators,   \* merge_sequences: the list of input generators
    values,       \* merge_sequences: one cursor per pulled generator
    min_index,    \* merge_sequences: index selected by the last min()
    mpc,          \* merge_sequences: its own program counter
    awaited,      \* merge_sequences: generator whose __anext__ is awaited, 0 if none
    emitted,      \* every value merge_sequences has yielded, in order
    emittedFrom,  \* the generator index each of them came from
    inputs,       \* the items each list generator was created with
    cpc,          \* the consumer of the merged sequence
    received,     \* what the consumer has been handed so far
    dg_values,    \* dict_get: its argument values
    dg_key,       \* dict_get: its argument key
    dg_result,    \* dict_get: what the call returned
    dg_pc         \* dict_get: "ready" before the call, "returned" after

mergeVars == <<generators, values, min_index, mpc, awaited, emitted, emittedFrom,
               inputs, cpc, received>>
remoteVars == <<remote, devices>>
runVars == <<stateFile, state, args, run, dpc, influx_data, sink>>
dictVars == <<dg_values, dg_key, dg_result, dg_pc>>
vars == <<remoteVars, runVars, mergeVars, dictVars>>

None == <<>>
Some(v) == <<v>>

\* datetime.max.replace(tzinfo=timezone.utc): later than every timestamp modelled.
DatetimeMax == 3652059 * TicksPerDay

----------------------------------------------------------------------------
(* Strings, JSON values and dict_get *)

\* A string is a sequence of symbols; "." is the one symbol str.split looks for.
\* A JSON / Python value is tagged: <<"dict", f>> with f a function from strings
\* to values, <<"str", s>>, <<"int", n>>, and <<"none">> for None.
Dict(f) == <<"dict", f>>
StrVal(x) == <<"str", x>>
IntVal(n) == <<"int", n>>
NoneVal == <<"none">>
EmptyDict == Dict(<<>>)
\* The marker of a call that raised instead of returning.
Raised == <<"raised">>

isinstance_dict(v) == v[1] = "dict"
Keys(d) == DOMAIN d[2]
\* d[k] = v on a dict
DictPut(d, k, v) ==
    Dict([x \in Keys(d) \cup {k} |-> IF x = k THEN v ELSE d[2][x]])
\* {**a, **b}
DictMerge(a, b) ==
    Dict([x \in Keys(a) \cup Keys(b) |-> IF x \in Keys(b) THEN b[2][x] ELSE a[2][x]])

\* key.split('.'): the segments between the dots, empty segments kept.
RECURSIVE SplitFrom(_, _, _)
SplitFrom(key, k, segment) ==
    IF k > Len(key) THEN <<segment>>
    ELSE IF key[k] = "." THEN <<segment>> \o SplitFrom(key, k + 1, <<>>)
    ELSE SplitFrom(key, k + 1, Append(segment, key[k]))

split(key) == SplitFrom(key, 1, <<>>)

\* k in values, values[k]: both raise TypeError on a value that is not a
\* container (an int, None).
RECURSIVE dict_get_loop(_, _)
\* Mutant of the loop of dict_get: the isinstance test is missing.
dict_get_loop_no_isinstance(vals, keys) ==
    IF keys = <<>> THEN vals
    ELSE IF vals[1] # "dict" THEN Raised
    ELSE IF Head(keys) \in Keys(vals)
         THEN dict_get_loop(vals[2][Head(keys)], Tail(keys))
         ELSE NoneVal

\* for k in keys: if isinstance(vals, dict) and k in vals: vals = vals[k]
\*                else: return None
\* return vals
dict_get_loop(vals, keys) ==
    IF keys = <<>> THEN vals
    ELSE IF isinstance_dict(vals) /\ Head(keys) \in Keys(vals)
         THEN dict_get_loop(vals[2][Head(keys)], Tail(keys))
         ELSE NoneVal

dict_get(vals, key) == dict_get_loop(vals, split(key))

----------------------------------------------------------------------------
(* Time: a datetime is a number of ticks since 2020-01-01T00:00Z *)

Day(d) == d * TicksPerDay

\* The first days of the months of 2020, in days since January 1st.
MonthStartDays == {0, 31, 60, 91, 121, 152, 182, 213, 244, 274, 305, 335, 366}

\* datetime.replace(day=1, hour=0, minute=0, second=0, microsecond=0)
replace_day1_midnight(t) ==
    LET day == t \div TicksPerDay
        first == CHOOSE m \in MonthStartDays :
                    m <= day /\ \A n \in MonthStartDays : n <= day => n <= m
    IN  Day(first)

\* Mutant of MonthEnd: the end of the window is not truncated.
MonthEndNotTruncated(download_start, step) == download_start + Day(31) * step

\* (download_start + timedelta(days=31) * step).replace(day=1, hour=0, ...)
MonthEnd(download_start, step) ==
    replace_day1_midnight(download_start + Day(31) * step)

\* datetime.isoformat(): the date and the time of day, as text.
isoformat(t) == <<"date", t \div TicksPerDay, "T", t % TicksPerDay>>

\* dateparser.isoparse
isoparse(text) == text[2] * TicksPerDay + text[4]

\* strftime('%Y-%m-%dT%H:%M:%S.000Z'): what is finer than a tick is dropped.
time_to_iso8601(t) == <<"date", t \div TicksPerDay, "T", t % TicksPerDay>>

----------------------------------------------------------------------------
(* The remote service *)

RECURSIVE SortAsc(_)
SortAsc(S) ==
    IF S = {} THEN <<>>
    ELSE LET m == CHOOSE x \in S : \A y \in S : x <= y
         IN  <<m>> \o SortAsc(S \ {m})

\* MinutSession.get_<measurement>(device_id, start_at, end_at): the
\* (timestamp, value) pairs the service holds in [start_at, end_at), ascending.
Get(device_id, measurement, start_at, end_at) ==
    LET from == isoparse(time_to_iso8601(start_at))
        to == isoparse(time_to_iso8601(end_at))
        stamps == SortAsc({r[3] : r \in {q \in remote :
                     /\ q[1] = device_id /\ q[2] = measurement
                     /\ from <= q[3] /\ q[3] < to}})
    IN  [k \in 1..Len(stamps) |-> <<stamps[k], 1>>]

----------------------------------------------------------------------------
(* Finite sequences used to draw inputs *)

RECURSIVE SeqsUpTo(_, _)
SeqsUpTo(S, n) ==
    IF n = 0 THEN {<<>>}
    ELSE LET shorter == SeqsUpTo(S, n - 1)
         IN  shorter \cup {Append(s, x) : s \in {t \in shorter : Len(t) = n - 1}, x \in S}

RECURSIVE TotalLen(_, _)
TotalLen(seqs, n) == IF n = 0 THEN 0 ELSE Len(seqs[n]) + TotalLen(seqs, n - 1)

\* The lists of n sequences over S holding at most `budget` elements in all.
RECURSIVE InputLists(_, _, _)
InputLists(S, n, budget) ==
    IF n = 0 THEN {<<>>}
    ELSE UNION { {Append(rest, tss) :
                     tss \in SeqsUpTo(S, budget - TotalLen(rest, Len(rest)))} :
                 rest \in InputLists(S, n - 1, budget) }

----------------------------------------------------------------------------
(* Async generators *)

\* A plain generator yielding fixed items, as gen1/gen2 of test.py.
ListGen(items) ==
    [kind |-> "list", pc |-> "created", items |-> items, cur |-> None]

\* generator.__anext__(): start or resume the generator's body; a generator
\* that has ended or raised is closed and raises StopAsyncIteration at once.
Anext(g) ==
    [g EXCEPT !.pc = IF g.pc = "created" THEN "start"
                     ELSE IF g.pc \in {"finished", "raised"} THEN "finished"
                     ELSE "resumed",
              !.cur = None]

Running(g) == g.pc \notin {"created", "suspended", "finished", "raised"}

\* Body of a list generator: yield the next item, or end.
ListGenStep(i) ==
    /\ i \in 1..Len(generators)
    /\ generators[i].kind = "list"
    /\ Running(generators[i])
    /\ LET g == generators[i]
       IN  generators' = [generators EXCEPT ![i] =
              IF g.items # <<>>
              THEN [g EXCEPT !.pc = "suspended", !.cur = Some(Head(g.items)),
                             !.items = Tail(g.items)]
              ELSE [g EXCEPT !.pc = "finished"]]
    /\ UNCHANGED <<dictVars, remoteVars, runVars, values, min_index, mpc, awaited, emitted, emittedFrom,
                   inputs, cpc, received>>

----------------------------------------------------------------------------
(* measurement_sequence over month_sequence *)

Reverse(seq) == [k \in 1..Len(seq) |-> seq[Len(seq) + 1 - k]]

\* measurement_sequence(device_id, start_time, end_time, measurement, get, state),
\* not started. get is "minut" (MinutSession.get_<measurement>) or "script": a
\* fetch function answering its successive calls with the pages of `script`,
\* and raising at call number fail_at when that is not 0.
MeasurementGen(device_id, start_time, end_time, measurement, get, script) ==
    [kind |-> "measurement", pc |-> "created", cur |-> None,
     device_id |-> device_id, measurement |-> measurement,
     start_time |-> start_time, end_time |-> end_time,
     get |-> get, script |-> script,
     download_start |-> start_time, download_end |-> start_time,
     values |-> <<>>, timestamp |-> 0,
     fetched |-> <<>>, updates |-> <<>>, fail_at |-> 0]

\* The call of get that is about to be made raises.
FetchRaises(g) == g.fail_at = Len(g.fetched) + 1

\* await get(device_id, start_at=download_start, end_at=download_end)
Fetch(g, download_end) ==
    IF g.get = "minut"
    THEN Get(g.device_id, g.measurement, g.download_start, download_end)
    ELSE IF Len(g.fetched) < Len(g.script)
         THEN LET page == g.script[Len(g.fetched) + 1]
              IN  [k \in 1..Len(page) |-> <<page[k], 1>>]
         ELSE <<>>

\* Mutant of BeyondEnd: the end bound is not checked.
BeyondEndUnchecked(timestamp, end_time) == FALSE

\* if timestamp > end_time: break
BeyondEnd(timestamp, end_time) == timestamp > end_time

\* Mutant of UpdateState: the end of the window is stored, not the record's time.
UpdateStateWindowEnd(st, g) ==
    LET st1 == IF <<"devices">> \in Keys(st) THEN st
               ELSE DictPut(st, <<"devices">>, EmptyDict)
        devs == st1[2][<<"devices">>]
        devs1 == IF g.device_id \in Keys(devs) THEN devs
                 ELSE DictPut(devs, g.device_id, EmptyDict)
        entry == DictPut(devs1[2][g.device_id], g.measurement,
                         StrVal(isoformat(g.download_end)))
    IN  DictPut(st1, <<"devices">>, DictPut(devs1, g.device_id, entry))

\* Mutant of UpdateState: the device's dict is created anew at every update.
UpdateStateFreshDevice(st, g) ==
    LET st1 == IF <<"devices">> \in Keys(st) THEN st
               ELSE DictPut(st, <<"devices">>, EmptyDict)
        devs == st1[2][<<"devices">>]
        entry == DictPut(EmptyDict, g.measurement, StrVal(isoformat(g.timestamp)))
    IN  DictPut(st1, <<"devices">>, DictPut(devs, g.device_id, entry))

\* if not 'devices' in state: state['devices'] = {}
\* if not device_id in state['devices']: state['devices'][device_id] = {}
\* state['devices'][device_id][measurement] = timestamp.isoformat()
UpdateState(st, g) ==
    LET st1 == IF <<"devices">> \in Keys(st) THEN st
               ELSE DictPut(st, <<"devices">>, EmptyDict)
        devs == st1[2][<<"devices">>]
        devs1 == IF g.device_id \in Keys(devs) THEN devs
                 ELSE DictPut(devs, g.device_id, EmptyDict)
        entry == DictPut(devs1[2][g.device_id], g.measurement,
                         StrVal(isoformat(g.timestamp)))
    IN  DictPut(st1, <<"devices">>, DictPut(devs1, g.device_id, entry))

\* Mutant of StateAtYield: the state is updated before the record is handed out.
StateAtYieldUpdated(st, g) == UpdateState(st, g)

\* yield (timestamp, device_id, measurement, value): the generator is suspended
\* at line 217, before lines 219-224 have run, so the state is still as it was.
StateAtYield(st, g) == st

\* One step of the body of measurement_sequence on the frame fr = [g, state].
MeasurementStep(fr) ==
    LET g == fr.g IN
    CASE g.pc = "start" ->
            \* month_sequence: download_start = start
            [fr EXCEPT !.g = [g EXCEPT !.pc = "for", !.download_start = g.start_time]]
      [] g.pc = "for" ->
            \* month_sequence: while download_start < end: yield the window;
            \* then the fetch and values.reverse()
            \* an exception of get is not caught: it ends the generator
            IF g.download_start < g.end_time
            THEN LET download_end == MonthEnd(g.download_start, 1)
                 IN  IF FetchRaises(g)
                     THEN [fr EXCEPT !.g = [g EXCEPT
                             !.pc = "raised",
                             !.download_end = download_end,
                             !.fetched = Append(g.fetched,
                                                <<g.download_start, download_end>>)]]
                     ELSE [fr EXCEPT !.g = [g EXCEPT
                             !.pc = "while",
                             !.download_end = download_end,
                             !.values = Reverse(Fetch(g, download_end)),
                             !.fetched = Append(g.fetched,
                                                <<g.download_start, download_end>>)]]
            ELSE [fr EXCEPT !.g = [g EXCEPT !.pc = "finished"]]
      [] g.pc = "while" ->
            \* while len(values) > 0: pop; break beyond end_time; else yield
            IF Len(g.values) > 0
            THEN LET popped == g.values[Len(g.values)]
                     rest == SubSeq(g.values, 1, Len(g.values) - 1)
                 IN  IF BeyondEnd(popped[1], g.end_time)
                     THEN [fr EXCEPT !.g = [g EXCEPT
                             !.pc = "for", !.values = rest, !.timestamp = popped[1],
                             !.download_start = g.download_end]]
                     ELSE [fr EXCEPT !.g = [g EXCEPT
                             !.pc = "suspended", !.values = rest, !.timestamp = popped[1],
                             !.cur = Some(<<popped[1], g.device_id, g.measurement,
                                            popped[2]>>)],
                                     !.state = StateAtYield(fr.state,
                                                  [g EXCEPT !.timestamp = popped[1]])]
            ELSE [fr EXCEPT !.g = [g EXCEPT !.pc = "for",
                                            !.download_start = g.download_end]]
      [] g.pc = "resumed" ->
            \* after the yield: update state with the last downloaded timestamp
            [fr EXCEPT !.g = [g EXCEPT !.pc = "while",
                                       !.updates = Append(g.updates, g.timestamp)],
                       !.state = UpdateState(fr.state, g)]

\* The body runs from the pull to its next yield, its end or its exception.
RECURSIVE MeasurementRun(_)
MeasurementRun(fr) ==
    IF Running(fr.g) THEN MeasurementRun(MeasurementStep(fr)) ELSE fr

measurement_sequence(i) ==
    /\ i \in 1..Len(generators)
    /\ generators[i].kind = "measurement"
    /\ Running(generators[i])
    /\ LET fr == MeasurementRun([g |-> generators[i], state |-> state])
       IN  /\ generators' = [generators EXCEPT ![i] = fr.g]
           /\ state' = fr.state
    /\ UNCHANGED <<dictVars, remoteVars, stateFile, args, run, dpc, influx_data, sink,
                   values, min_index, mpc, awaited, emitted, emittedFrom,
                   inputs, cpc, received>>

----------------------------------------------------------------------------
(* merge_sequences *)

\* Mutant of get_or_none: a generator's last value is taken for its end.
get_or_none_dropping(g) == IF g.pc = "suspended" /\ g.items # <<>> THEN g.cur ELSE None

\* Mutant of Caught: get_or_none catches every exception.
CaughtAnyException(g) == g.pc \in {"finished", "raised"}

\* except StopAsyncIteration: the one exception get_or_none catches.
Caught(g) == g.pc = "finished"

\* get_or_none's result once the awaited generator has stopped running:
\* its value, or None on StopAsyncIteration.
get_or_none(g) == IF g.pc = "suspended" THEN g.cur ELSE None

\* Mutant of timestamp_for_index: an exhausted cursor sorts first.
timestamp_for_index_exhausted_first(i) ==
    IF values[i] # None THEN values[i][1][1] ELSE 0

timestamp_for_index(i) ==
    IF values[i] # None THEN values[i][1][1] ELSE DatetimeMax

\* Mutants of MinIndex: the last minimal index; the first index holding a value.
MinIndexLastWins ==
    CHOOSE i \in 1..Len(values) :
        \A j \in 1..Len(values) :
            \/ timestamp_for_index(j) > timestamp_for_index(i)
            \/ (timestamp_for_index(j) = timestamp_for_index(i) /\ j <= i)

MinIndexFirstPending ==
    CHOOSE i \in 1..Len(values) :
        values[i] # None /\ \A j \in 1..(i - 1) : values[j] = None

\* min(range(len(values)), key=timestamp_for_index): the first minimal index.
MinIndex ==
    CHOOSE i \in 1..Len(values) :
        \A j \in 1..Len(values) :
            \/ timestamp_for_index(j) > timestamp_for_index(i)
            \/ (timestamp_for_index(j) = timestamp_for_index(i) /\ j >= i)

\* Mutant of AnyValue: the scan skips the first cursor.
AnyValueSkipFirst == \E i \in 2..Len(values) : values[i] # None

\* any(map(lambda value: value is not None, values))
AnyValue == \E i \in 1..Len(values) : values[i] # None

\* values = [await get_or_none(generator) for generator in generators]:
\* call __anext__ of the next generator not pulled yet.
MergeFillCall ==
    /\ mpc = "fill"
    /\ awaited = 0
    /\ Len(values) < Len(generators)
    /\ awaited' = Len(values) + 1
    /\ generators' = [generators EXCEPT ![Len(values) + 1] = Anext(@)]
    /\ UNCHANGED <<dictVars, remoteVars, runVars, values, min_index, mpc, emitted, emittedFrom, inputs, cpc, received>>

MergeFillReturn ==
    /\ mpc = "fill"
    /\ awaited # 0
    /\ (generators[awaited].pc = "suspended" \/ Caught(generators[awaited]))
    /\ values' = Append(values, get_or_none(generators[awaited]))
    /\ awaited' = 0
    /\ UNCHANGED <<dictVars, remoteVars, runVars, generators, min_index, mpc, emitted, emittedFrom, inputs, cpc, received>>

MergeFillDone ==
    /\ mpc = "fill"
    /\ awaited = 0
    /\ Len(values) = Len(generators)
    /\ mpc' = "loop"
    /\ UNCHANGED <<dictVars, remoteVars, runVars, generators, values, min_index, awaited, emitted, emittedFrom,
                   inputs, cpc, received>>

\* while any(...): min_index = min(...); yield values[min_index]
MergeYield ==
    /\ mpc = "loop"
    /\ AnyValue
    /\ min_index' = MinIndex
    /\ emitted' = Append(emitted, values[MinIndex])
    /\ emittedFrom' = Append(emittedFrom, MinIndex)
    /\ mpc' = "suspended"
    /\ UNCHANGED <<dictVars, remoteVars, runVars, generators, values, awaited, inputs, cpc, received>>

\* the while condition is false: the generator body ends.
MergeFinish ==
    /\ mpc = "loop"
    /\ ~AnyValue
    /\ mpc' = "finished"
    /\ UNCHANGED <<dictVars, remoteVars, runVars, generators, values, min_index, awaited, emitted, emittedFrom,
                   inputs, cpc, received>>

\* values[min_index] = await get_or_none(generators[min_index])
MergeRefillCall ==
    /\ mpc = "resumed"
    /\ awaited = 0
    /\ awaited' = min_index
    /\ generators' = [generators EXCEPT ![min_index] = Anext(@)]
    /\ UNCHANGED <<dictVars, remoteVars, runVars, values, min_index, mpc, emitted, emittedFrom, inputs, cpc, received>>

MergeRefillReturn ==
    /\ mpc = "resumed"
    /\ awaited # 0
    /\ (generators[awaited].pc = "suspended" \/ Caught(generators[awaited]))
    /\ values' = [values EXCEPT ![min_index] = get_or_none(generators[awaited])]
    /\ awaited' = 0
    /\ mpc' = "loop"
    /\ UNCHANGED <<dictVars, remoteVars, runVars, generators, min_index, emitted, emittedFrom, inputs, cpc, received>>

\* The awaited generator raised an exception get_or_none does not catch: it
\* leaves get_or_none and merge_sequences, at line 236 or at line 249.
MergeRaise ==
    /\ mpc \in {"fill", "resumed"}
    /\ awaited # 0
    /\ generators[awaited].pc = "raised"
    /\ ~Caught(generators[awaited])
    /\ mpc' = "raised"
    /\ awaited' = 0
    /\ UNCHANGED <<dictVars, remoteVars, runVars, generators, values, min_index, emitted,
                   emittedFrom, inputs, cpc, received>>

\* Mutant of MergeAnext: resumed, merge_sequences skips the refill of line 249.
MergeAnextWithoutRefill == IF mpc = "created" THEN "fill" ELSE "loop"

\* merged.__anext__() by the consumer: start or resume merge_sequences.
MergeAnext == IF mpc = "created" THEN "fill" ELSE "resumed"

merge_sequences ==
    \/ MergeFillCall
    \/ MergeFillReturn
    \/ MergeFillDone
    \/ MergeYield
    \/ MergeFinish
    \/ MergeRefillCall
    \/ MergeRefillReturn

----------------------------------------------------------------------------
(* A consumer pulling the merged sequence value by value, as test.py does. *)

TestAnext ==
    /\ cpc = "idle"
    /\ mpc \in {"created", "suspended"}
    /\ mpc' = MergeAnext
    /\ cpc' = "awaiting"
    /\ UNCHANGED <<dictVars, remoteVars, runVars, generators, values, min_index, awaited, emitted, emittedFrom,
                   inputs, received>>

TestGot ==
    /\ cpc = "awaiting"
    /\ mpc = "suspended"
    /\ received' = Append(received, values[min_index])
    /\ cpc' = "idle"
    /\ UNCHANGED <<dictVars, remoteVars, runVars, generators, values, min_index, mpc, awaited, emitted, emittedFrom,
                   inputs>>

\* assertRaises(StopAsyncIteration)
TestStop ==
    /\ cpc = "awaiting"
    /\ mpc = "finished"
    /\ cpc' = "stopped"
    /\ UNCHANGED <<dictVars, remoteVars, runVars, generators, values, min_index, mpc, awaited, emitted, emittedFrom,
                   inputs, received>>

\* The pull of the merged sequence raised.
TestRaised ==
    /\ cpc = "awaiting"
    /\ mpc = "raised"
    /\ cpc' = "raised"
    /\ UNCHANGED <<dictVars, remoteVars, runVars, generators, values, min_index, mpc, awaited,
                   emitted, emittedFrom, inputs, received>>

\* The consumer stops pulling before the end.
TestAbandon ==
    /\ cpc = "idle"
    /\ mpc = "suspended"
    /\ cpc' = "abandoned"
    /\ UNCHANGED <<dictVars, remoteVars, runVars, generators, values, min_index, mpc, awaited, emitted, emittedFrom,
                   inputs, received>>

----------------------------------------------------------------------------
(* Specification of merge_sequences over arbitrary finite list generators. *)

\* Generator i yields (timestamp, i) pairs, as gen1 yields (t, 0) and gen2 (t, 1).
ItemsOf(i, tss) == [k \in 1..Len(tss) |-> <<tss[k], i>>]

InitMerge ==
    /\ \E n \in 0..MaxGens :
         \E tss \in InputLists(1..MaxTs, n, MaxRecords) :
            /\ inputs = [i \in 1..n |-> ItemsOf(i, tss[i])]
            /\ generators = [i \in 1..n |-> ListGen(ItemsOf(i, tss[i]))]
    /\ values = <<>>
    /\ min_index = 0
    /\ mpc = "created"
    /\ awaited = 0
    /\ emitted = <<>>
    /\ emittedFrom = <<>>
    /\ cpc = "idle"
    /\ received = <<>>
    /\ remote = {}
    /\ devices = <<>>
    /\ stateFile = None
    /\ state = EmptyDict
    /\ args = <<>>
    /\ run = 0
    /\ dpc = "test"
    /\ influx_data = <<>>
    /\ sink = <<>>
    /\ dg_values = EmptyDict
    /\ dg_key = <<>>
    /\ dg_result = NoneVal
    /\ dg_pc = "unused"

NextMerge ==
    \/ \E i \in 1..MaxGens : ListGenStep(i)
    \/ merge_sequences
    \/ TestAnext
    \/ TestGot
    \/ TestStop
    \/ TestAbandon

SpecMerge == InitMerge /\ [][NextMerge]_vars

----------------------------------------------------------------------------
(* download_devices and download *)

\* The batch size of download_devices, 40960 in the source, scaled to the
\* number of records of the model.
BatchThreshold == 2

getters == << <<"humidity">>, <<"temperature">>, <<"sound_level">>, <<"pressure">> >>

Max(a, b) == IF a >= b THEN a ELSE b

\* Mutant of StateKey: the 'devices.' prefix is missing.
StateKeyNoPrefix(device_id, measurement) == device_id \o <<".">> \o measurement

\* f'devices.{device_id}.{measurement}'
StateKey(device_id, measurement) ==
    <<"devices", ".">> \o device_id \o <<".">> \o measurement

\* Mutant of measurement_start_time: a stored timestamp is used even when
\* start_time is given.
measurement_start_time_stored_first(device, measurement, st, start_time) ==
    LET first_seen == isoparse(device.first_seen_at)
        already_downloaded == dict_get(st, StateKey(device.device_id, measurement))
    IN  IF already_downloaded # NoneVal THEN isoparse(already_downloaded[2])
        ELSE IF start_time # None THEN Max(first_seen, start_time[1])
        ELSE first_seen

\* Lines 301-307: where the measurement_sequence of a pair starts.
measurement_start_time(device, measurement, st, start_time) ==
    LET first_seen == isoparse(device.first_seen_at)
        already_downloaded == dict_get(st, StateKey(device.device_id, measurement))
    IN  IF start_time # None THEN Max(first_seen, start_time[1])
        ELSE IF already_downloaded # NoneVal THEN isoparse(already_downloaded[2])
        ELSE first_seen

\* The generators download_devices collects: for each device, one per getter.
Collect(devs, st, start_time, end_time) ==
    [k \in 1..(Len(devs) * Len(getters)) |->
        LET device == devs[((k - 1) \div Len(getters)) + 1]
            measurement == getters[((k - 1) % Len(getters)) + 1]
        IN  MeasurementGen(device.device_id,
                           measurement_start_time(device, measurement, st, start_time),
                           end_time, measurement, "minut", <<>>)]

\* The point download_devices appends for a merged record.
Point(rec) ==
    [measurement |-> rec[3], device |-> rec[2], time |-> isoformat(rec[1]),
     value |-> rec[4]]

\* MinutSession.get_state()
MinutGetState ==
    Dict([k \in {<<"access_token">>, <<"token_type">>, <<"refresh_token">>,
                 <<"expires_in">>} |-> StrVal(<<"secret">>)])

\* The timestamps the remote service may hold, the start and the end times.
Instants == {Day(10), Day(20), Day(31), Day(41)}
FirstSeenAt == Day(5) + 1
EndTimes == {Day(10), Day(31), Day(41)}
StartTimes == {FirstSeenAt, Day(31)}

\* The runs of download that are modelled, and the arguments they may be given.
Runs == {1, 2}
StartArgs == {None, Some(Day(10)), Some(Day(31))}

\* download up to the first pull of download_devices: the state file is read
\* (no file: state = {}), the generators are collected.
DownloadStart ==
    /\ dpc = "idle"
    /\ run + 1 \in Runs
    /\ run' = run + 1
    /\ \E start_time \in StartArgs, end_time \in EndTimes :
         LET loaded == IF stateFile = None THEN EmptyDict ELSE stateFile[1]
         IN  /\ args' = Append(args, [start_time |-> start_time, end_time |-> end_time])
             /\ state' = loaded
             /\ generators' = Collect(devices, loaded, start_time, end_time)
    /\ influx_data' = <<>>
    /\ values' = <<>>
    /\ min_index' = 0
    /\ mpc' = "fill"
    /\ awaited' = 0
    /\ emitted' = <<>>
    /\ emittedFrom' = <<>>
    /\ received' = <<>>
    /\ cpc' = "awaiting"
    /\ dpc' = "running"
    /\ UNCHANGED <<dictVars, remoteVars, stateFile, sink, inputs>>

\* Mutant of BatchFull: the batch is flushed one record too late.
BatchFullStrict(data) == Len(data) > BatchThreshold

\* if len(influx_data) >= 40960
BatchFull(data) == Len(data) >= BatchThreshold

\* The body of the async for: append the point, flush a full batch, pull again.
DownloadGot ==
    /\ dpc = "running"
    /\ cpc = "awaiting"
    /\ mpc = "suspended"
    /\ received' = Append(received, values[min_index])
    /\ LET data == Append(influx_data, Point(values[min_index][1]))
       IN  IF BatchFull(data)
           THEN /\ sink' = Append(sink, [run |-> run, points |-> data])
                /\ influx_data' = <<>>
           ELSE /\ sink' = sink
                /\ influx_data' = data
    /\ mpc' = MergeAnext
    /\ UNCHANGED <<dictVars, remoteVars, stateFile, state, args, run, dpc, generators, values,
                   min_index, awaited, emitted, emittedFrom, inputs, cpc>>

\* The merged sequence has ended: the remainder is written and
\* download_devices returns.
DownloadEnd ==
    /\ dpc = "running"
    /\ cpc = "awaiting"
    /\ mpc = "finished"
    /\ sink' = IF Len(influx_data) > 0
               THEN Append(sink, [run |-> run, points |-> influx_data])
               ELSE sink
    /\ cpc' = "stopped"
    /\ dpc' = "returned"
    /\ UNCHANGED <<dictVars, remoteVars, stateFile, state, args, run, influx_data, generators,
                   values, min_index, mpc, awaited, emitted, emittedFrom, inputs,
                   received>>

\* Mutant of WriteRaised: the exception of write_points is swallowed and
\* download goes on to store the state.
WriteRaisedSwallowed == "returned"

\* Where download is once write_points has raised: neither download_devices
\* (lines 338, 342) nor download (line 373) catches, so line 376 is not reached.
WriteRaised == "failed"

\* influx_client.write_points raises, for a full batch or for the remainder:
\* nothing is written, the exception leaves download_devices and download, the
\* merged sequence is left where it was and the batch is gone with the frame.
DownloadWriteFails ==
    /\ dpc = "running"
    /\ cpc = "awaiting"
    /\ \/ /\ mpc = "suspended"
          /\ BatchFull(Append(influx_data, Point(values[min_index][1])))
          /\ received' = Append(received, values[min_index])
       \/ /\ mpc = "finished"
          /\ Len(influx_data) > 0
          /\ received' = received
    /\ influx_data' = <<>>
    /\ cpc' = "abandoned"
    /\ dpc' = WriteRaised
    /\ UNCHANGED <<dictVars, remoteVars, stateFile, state, args, run, sink, generators,
                   values, min_index, mpc, awaited, emitted, emittedFrom, inputs>>

\* updated_state = {**state, **minut.get_state()}; json.dump to the state file.
DownloadStore ==
    /\ dpc = "returned"
    /\ stateFile' = Some(DictMerge(state, MinutGetState))
    /\ dpc' = "idle"
    /\ UNCHANGED <<dictVars, remoteVars, state, args, run, influx_data, sink, mergeVars>>

\* The sources of the remote service that hold records.
DataSources == {<< <<"d1">>, <<"humidity">> >>, << <<"d1">>, <<"temperature">> >>}

Spec_Init ==
    /\ \E held \in SUBSET (DataSources \X Instants) :
          /\ Cardinality(held) <= MaxHistory
          /\ remote = {<<h[1][1], h[1][2], h[2]>> : h \in held}
    /\ devices = <<[device_id |-> <<"d1">>, first_seen_at |-> isoformat(FirstSeenAt)]>>
    /\ stateFile = None
    /\ state = EmptyDict
    /\ args = <<>>
    /\ run = 0
    /\ dpc = "idle"
    /\ influx_data = <<>>
    /\ sink = <<>>
    /\ generators = <<>>
    /\ inputs = <<>>
    /\ values = <<>>
    /\ min_index = 0
    /\ mpc = "created"
    /\ awaited = 0
    /\ emitted = <<>>
    /\ emittedFrom = <<>>
    /\ cpc = "idle"
    /\ received = <<>>
    /\ dg_values = EmptyDict
    /\ dg_key = <<>>
    /\ dg_result = NoneVal
    /\ dg_pc = "unused"

Next ==
    \/ DownloadStart
    \/ \E i \in 1..(Len(devices) * Len(getters)) : measurement_sequence(i)
    \/ merge_sequences
    \/ DownloadGot
    \/ DownloadEnd
    \/ DownloadWriteFails
    \/ DownloadStore

Spec == Spec_Init /\ [][Next]_vars

----------------------------------------------------------------------------
(* Specification of one measurement_sequence behind merge_sequences, with a *)
(* fetch function that answers with arbitrary pages.                        *)

MaxPages == 2

\* The timestamps a page may hold: those of the service and one after every
\* end time.
ScriptInstants == Instants \cup {Day(50)}

InitSeq ==
    /\ \E n \in 0..MaxPages :
         \E script \in InputLists(ScriptInstants, n, MaxHistory) :
            \E start_time \in StartTimes, end_time \in EndTimes :
               \E fail_at \in 0..MaxPages :
                  generators =
                     <<[MeasurementGen(<<"d1">>, start_time, end_time,
                                       <<"humidity">>, "script", script)
                          EXCEPT !.fail_at = fail_at]>>
    /\ inputs = <<>>
    /\ values = <<>>
    /\ min_index = 0
    /\ mpc = "created"
    /\ awaited = 0
    /\ emitted = <<>>
    /\ emittedFrom = <<>>
    /\ cpc = "idle"
    /\ received = <<>>
    /\ remote = {}
    /\ devices = <<>>
    /\ stateFile = None
    /\ state = EmptyDict
    /\ args = <<>>
    /\ run = 0
    /\ dpc = "test"
    /\ influx_data = <<>>
    /\ sink = <<>>
    /\ dg_values = EmptyDict
    /\ dg_key = <<>>
    /\ dg_result = NoneVal
    /\ dg_pc = "unused"

NextSeq ==
    \/ measurement_sequence(1)
    \/ merge_sequences
    \/ MergeRaise
    \/ TestRaised
    \/ TestAnext
    \/ TestGot
    \/ TestStop
    \/ TestAbandon

SpecSeq == InitSeq /\ [][NextSeq]_vars

----------------------------------------------------------------------------
(* Specification of dict_get over bounded dicts and keys *)

MaxKeyLen == 3

\* The symbols of a key, the keys of the dicts and the values that are not dicts.
Symbols == {"a", "b", "."}
DictKeys == {<<"a">>, <<"b">>}
Leaves == {IntVal(10), StrVal(<<"a">>), NoneVal}

\* The dicts over DictKeys whose values are drawn from vs.
DictsOver(vs) ==
    UNION {{Dict(f) : f \in [ks -> vs]} : ks \in SUBSET DictKeys}

Values1 == Leaves \cup DictsOver(Leaves)
Values2 == Leaves \cup DictsOver(Values1)

InitDictGet ==
    /\ dg_values \in Values2
    /\ dg_key \in SeqsUpTo(Symbols, MaxKeyLen)
    /\ dg_result = NoneVal
    /\ dg_pc = "ready"
    /\ remote = {}
    /\ devices = <<>>
    /\ stateFile = None
    /\ state = EmptyDict
    /\ args = <<>>
    /\ run = 0
    /\ dpc = "test"
    /\ influx_data = <<>>
    /\ sink = <<>>
    /\ generators = <<>>
    /\ inputs = <<>>
    /\ values = <<>>
    /\ min_index = 0
    /\ mpc = "created"
    /\ awaited = 0
    /\ emitted = <<>>
    /\ emittedFrom = <<>>
    /\ cpc = "idle"
    /\ received = <<>>

\* result = dict_get(values, key)
DictGetCall ==
    /\ dg_pc = "ready"
    /\ dg_result' = dict_get(dg_values, dg_key)
    /\ dg_pc' = "returned"
    /\ UNCHANGED <<remoteVars, runVars, mergeVars, dg_values, dg_key>>

NextDictGet == DictGetCall

SpecDictGet == InitDictGet /\ [][NextDictGet]_vars

----------------------------------------------------------------------------
(* Specification of month_sequence under a for loop *)

MaxStartDay == 62

\* The start and end arguments that are drawn.
MonthSeqStarts == 0..Day(MaxStartDay)
MonthSeqEnds == {Day(1), Day(31), Day(45), Day(60), Day(91) + 1, Day(130)}

\* month_sequence(start, end, step), not started.
MonthGen(start, end, step) ==
    [kind |-> "month", pc |-> "created", cur |-> None,
     start |-> start, end |-> end, step |-> step,
     download_start |-> start, download_end |-> start]

\* next() on the generator: download_start = start at the first call and
\* download_start = download_end at a later one; then the while test, and the
\* yield of (download_start, download_end) or the end of the generator.
MonthNext(g) ==
    LET download_start == IF g.pc = "created" THEN g.start ELSE g.download_end
        download_end == MonthEnd(download_start, g.step)
    IN  IF download_start < g.end
        THEN [g EXCEPT !.pc = "suspended", !.download_start = download_start,
                       !.download_end = download_end,
                       !.cur = Some(<<download_start, download_end>>)]
        ELSE [g EXCEPT !.pc = "finished", !.download_start = download_start,
                       !.cur = None]

\* One turn of `for (download_start, download_end) in month_sequence(...)`.
month_sequence ==
    /\ Len(generators) = 1
    /\ generators[1].kind = "month"
    /\ generators[1].pc \in {"created", "suspended"}
    /\ LET g == MonthNext(generators[1])
       IN  /\ generators' = <<g>>
           /\ received' = IF g.pc = "suspended" THEN Append(received, g.cur)
                          ELSE received
           /\ cpc' = IF g.pc = "suspended" THEN "idle" ELSE "stopped"
    /\ UNCHANGED <<dictVars, remoteVars, runVars, values, min_index, mpc, awaited,
                   emitted, emittedFrom, inputs>>

InitMonth ==
    /\ \E start \in MonthSeqStarts, end \in MonthSeqEnds :
          generators = <<MonthGen(start, end, 1)>>
    /\ inputs = <<>>
    /\ values = <<>>
    /\ min_index = 0
    /\ mpc = "created"
    /\ awaited = 0
    /\ emitted = <<>>
    /\ emittedFrom = <<>>
    /\ cpc = "idle"
    /\ received = <<>>
    /\ remote = {}
    /\ devices = <<>>
    /\ stateFile = None
    /\ state = EmptyDict
    /\ args = <<>>
    /\ run = 0
    /\ dpc = "test"
    /\ influx_data = <<>>
    /\ sink = <<>>
    /\ dg_values = EmptyDict
    /\ dg_key = <<>>
    /\ dg_result = NoneVal
    /\ dg_pc = "unused"

NextMonth == month_sequence

SpecMonth == InitMonth /\ [][NextMonth]_vars

\* The for loop keeps asking for the next window.
FairSpecMonth == SpecMonth /\ WF_vars(NextMonth)

\* The consumer keeps pulling: every step that can be taken is eventually taken
\* (one flow of control; a generator that can run does run).
FairSpecMerge == SpecMerge /\ WF_vars(NextMerge)

----------------------------------------------------------------------------
(* Claims about merge_sequences *)

NonDecreasing(recs) == \A k \in 2..Len(recs) : recs[k][1] >= recs[k - 1][1]

\* The records among the yielded values (a yielded None is no record).
Records(opts) == [k \in 1..Len(opts) |-> opts[k][1]]

NoneYielded == \A k \in 1..Len(emitted) : emitted[k] # None

InputsNonDecreasing == \A i \in 1..Len(inputs) : NonDecreasing(inputs[i])

\* C1: when every input sequence is non-decreasing by timestamp, every record
\* merge_sequences emits has a timestamp >= that of the record emitted just before it.
C1_MergedNonDecreasing ==
    InputsNonDecreasing => (NoneYielded /\ NonDecreasing(Records(emitted)))

\* C1 witness: two non-decreasing inputs were merged to the end, and the output
\* switched from the second input back to the first one.
C1_Witness ==
    /\ mpc = "finished"
    /\ InputsNonDecreasing
    /\ Len(emitted) >= 3
    /\ \E k \in 1..(Len(emitted) - 1) :
          /\ emittedFrom[k] = 2 /\ emittedFrom[k + 1] = 1
          /\ emitted[k][1][1] < emitted[k + 1][1][1]

\* C2: in a step of merge_sequences that emits a record while the cursors of
\* indices i < j both hold records with the same, minimal timestamp, the
\* emitted record is not j's, and j's record stays pending: i's goes first.
C2_TieLowestIndexFirst ==
    [][\A i, j \in 1..Len(values) :
          ( /\ i < j
            /\ values[i] # None /\ values[j] # None
            /\ timestamp_for_index(i) = timestamp_for_index(j)
            /\ \A k \in 1..Len(values) : timestamp_for_index(k) >= timestamp_for_index(i)
            /\ Len(emitted') = Len(emitted) + 1 )
          => ( /\ emittedFrom'[Len(emittedFrom')] # j
               /\ emittedFrom'[Len(emittedFrom')] <= i
               /\ values'[j] = values[j] )]_vars

\* C2 witness: index 1 has just been emitted while index 2 holds a record with
\* the same timestamp.
C2_Witness ==
    /\ mpc = "suspended"
    /\ Len(values) >= 2
    /\ values[1] # None /\ values[2] # None
    /\ timestamp_for_index(1) = timestamp_for_index(2)
    /\ min_index = 1
    /\ emittedFrom[Len(emittedFrom)] = 1

\* The values emitted that came from input i, in emission order.
RECURSIVE EmittedOf(_, _)
EmittedOf(i, n) ==
    IF n = 0 THEN <<>>
    ELSE IF emittedFrom[n] = i
         THEN Append(EmittedOf(i, n - 1), emitted[n])
         ELSE EmittedOf(i, n - 1)

IsPrefix(s, t) == Len(s) <= Len(t) /\ \A k \in 1..Len(s) : s[k] = t[k]

Wrapped(items) == [k \in 1..Len(items) |-> Some(items[k])]

\* C3: at every point the values emitted from input i are a prefix of input i,
\* in its order; when merge_sequences ends (StopAsyncIteration) it has emitted
\* every record of every input exactly once and nothing else; and a consumer that
\* keeps pulling does reach the end.
C3_MergeIsOrderPreservingPermutation ==
    /\ [](\A i \in 1..Len(inputs) :
            IsPrefix(EmittedOf(i, Len(emitted)), Wrapped(inputs[i])))
    /\ [](mpc = "finished" =>
            /\ Len(emitted) = TotalLen(inputs, Len(inputs))
            /\ \A i \in 1..Len(inputs) :
                  EmittedOf(i, Len(emitted)) = Wrapped(inputs[i]))
    /\ [](cpc = "stopped" => received = emitted)
    /\ <>(cpc \in {"stopped", "abandoned"})

\* C3 witness: the example of test.py's shape: two inputs of two records each,
\* interleaved, merged to the end and the end observed by the consumer.
C3_Witness ==
    /\ cpc = "stopped"
    /\ Len(inputs) = 2
    /\ Len(inputs[1]) = 2 /\ Len(inputs[2]) = 2
    /\ emittedFrom = <<1, 2, 2, 1>>

\* C4: with no input merge_sequences never yields and ends at the first pull;
\* with exactly one input it emits that input's records in the input's order
\* (a prefix of it at every point) and has emitted all of them when it ends.
C4_ZeroAndOneSequence ==
    /\ Len(generators) = 0 =>
          /\ emitted = <<>>
          /\ mpc \in {"created", "fill", "loop", "finished"}
          /\ cpc \in {"idle", "awaiting", "stopped"}
    /\ Len(generators) = 1 =>
          /\ IsPrefix(emitted, Wrapped(inputs[1]))
          /\ mpc = "finished" => emitted = Wrapped(inputs[1])
          /\ cpc = "stopped" => received = Wrapped(inputs[1])

\* C4 witness: a single input whose two records are in decreasing order has been
\* merged to the end.
C4_Witness ==
    /\ cpc = "stopped"
    /\ Len(generators) = 1
    /\ Len(inputs[1]) = 2
    /\ inputs[1][1][1] > inputs[1][2][1]
    /\ Len(received) = 2

----------------------------------------------------------------------------
(* Claims about measurement_sequence, the resume state and the batches *)

IsMeasurement(i) == generators[i].kind = "measurement"

\* C5: a record measurement_sequence yields, and so every record that reaches
\* the consumer, has a timestamp <= the end_time the sequence was given,
\* whatever pages the fetch function answers with.
C5_NeverBeyondEndTime ==
    /\ \A i \in 1..Len(generators) :
          (IsMeasurement(i) /\ generators[i].pc = "suspended")
             => generators[i].cur[1][1] <= generators[i].end_time
    /\ \A k \in 1..Len(emitted) :
          IsMeasurement(emittedFrom[k])
             => emitted[k][1][1] <= generators[emittedFrom[k]].end_time

\* C5 witness: after yielding a record, the sequence popped a value later than
\* end_time from a page whose window ends after end_time, and has ended.
C5_Witness ==
    /\ Len(generators) = 1 /\ IsMeasurement(1)
    /\ generators[1].pc = "finished"
    /\ Len(emitted) >= 1
    /\ generators[1].timestamp > generators[1].end_time
    /\ generators[1].download_end > generators[1].end_time

\* The timestamp stored under state['devices'][device_id][measurement]:
\* None, or <<the datetime the stored text stands for>>.
StoredAt(st, device_id, measurement) ==
    IF /\ <<"devices">> \in Keys(st)
       /\ device_id \in Keys(st[2][<<"devices">>])
       /\ measurement \in Keys(st[2][<<"devices">>][2][device_id])
    THEN LET text == st[2][<<"devices">>][2][device_id][2][measurement][2]
         IN  Some(text[2] * TicksPerDay + text[4])
    ELSE None

Pairs == {<<devices[d].device_id, getters[m]>> :
             d \in 1..Len(devices), m \in 1..Len(getters)}

\* No pair's stored timestamp is removed or decreased from st to st2.
NeverDecreased(st, st2) ==
    \A pair \in Pairs :
        StoredAt(st, pair[1], pair[2]) # None
           => /\ StoredAt(st2, pair[1], pair[2]) # None
              /\ StoredAt(st2, pair[1], pair[2])[1] >= StoredAt(st, pair[1], pair[2])[1]

\* C6 as stated: in every step within a run, with or without a start-time
\* override, no pair's stored timestamp decreases.
C6_Original_NeverDecreases ==
    [][run' = run => NeverDecreased(state, state')]_vars

\* C6 as amended: in every step within a run started without a start-time
\* override, no pair's stored timestamp decreases, the value loaded from the
\* state file included.
C6_NeverDecreasesWithoutOverride ==
    [][(run' = run /\ run >= 1 /\ args[run].start_time = None)
          => NeverDecreased(state, state')]_vars

\* C6 witness: in a second run without override, a pair's timestamp has been
\* advanced beyond the value loaded from the state file.
C6_Witness ==
    /\ run = 2
    /\ args[2].start_time = None
    /\ stateFile # None
    /\ \E pair \in Pairs :
          /\ StoredAt(stateFile[1], pair[1], pair[2]) # None
          /\ StoredAt(state, pair[1], pair[2]) # None
          /\ StoredAt(state, pair[1], pair[2])[1] > StoredAt(stateFile[1], pair[1], pair[2])[1]

\* The points written to the sink in a run, in order.
RECURSIVE WrittenIn(_, _)
WrittenIn(r, n) ==
    IF n = 0 THEN <<>>
    ELSE IF sink[n].run = r THEN WrittenIn(r, n - 1) \o sink[n].points
         ELSE WrittenIn(r, n - 1)

PointsOf(opts) == [k \in 1..Len(opts) |-> Point(opts[k][1])]

\* C7: a step of download_devices that takes a merged record, and in which
\* write_points does not raise, writes to the sink exactly when the batch
\* thereby reaches the threshold, and the batch is then empty; the end of the merged stream writes the remainder once when it is not
\* empty and nothing when it is; no other step writes. So at every point the
\* writes of the run followed by the batch are the merged records in order, each
\* in one write, and no write is empty or larger than the threshold.
C7_BatchFlush ==
    /\ [][(dpc = "running" /\ dpc' = "running" /\ Len(received') = Len(received) + 1)
            => LET data == Append(influx_data, Point(received'[Len(received')][1]))
               IN  IF Len(data) = BatchThreshold
                   THEN /\ sink' = Append(sink, [run |-> run, points |-> data])
                        /\ influx_data' = <<>>
                   ELSE /\ sink' = sink
                        /\ influx_data' = data]_vars
    /\ [][(dpc = "running" /\ dpc' = "returned")
            => IF influx_data # <<>>
               THEN sink' = Append(sink, [run |-> run, points |-> influx_data])
               ELSE sink' = sink]_vars
    /\ [][(Len(received') = Len(received) /\ dpc' = dpc) => sink' = sink]_vars
    /\ [](/\ Len(influx_data) < BatchThreshold
          /\ \A n \in 1..Len(sink) :
                Len(sink[n].points) >= 1 /\ Len(sink[n].points) <= BatchThreshold
          /\ dpc = "running" =>
                WrittenIn(run, Len(sink)) \o influx_data = PointsOf(received)
          /\ dpc = "returned" =>
                WrittenIn(run, Len(sink)) = PointsOf(emitted))

\* C7 witness: a run wrote a full batch and then, at the end of the stream, a
\* smaller non-empty remainder.
C7_Witness ==
    /\ dpc = "returned"
    /\ Len(sink) >= 2
    /\ sink[Len(sink)].run = run /\ sink[Len(sink) - 1].run = run
    /\ Len(sink[Len(sink) - 1].points) = BatchThreshold
    /\ Len(sink[Len(sink)].points) < BatchThreshold

\* The record of the remote service was handed to the sink in run r.
DeliveredIn(rec, r) ==
    \E n \in 1..Len(sink) :
        /\ sink[n].run = r
        /\ \E k \in 1..Len(sink[n].points) :
              LET point == sink[n].points[k]
              IN  /\ point.device = rec[1]
                  /\ point.measurement = rec[2]
                  /\ point.time[2] * TicksPerDay + point.time[4] = rec[3]

\* Where the first run started every source: no state file existed.
InitialStart ==
    IF args[1].start_time = None THEN FirstSeenAt
    ELSE Max(FirstSeenAt, args[1].start_time[1])

TwoRunsSecondResumed == run = 2 /\ dpc = "idle" /\ args[2].start_time = None

\* C8: after two complete runs, the second without override, every record of
\* the remote service with InitialStart <= timestamp < the second run's
\* end_time was handed to the sink in at least one of the runs.
C8_NoGapAcrossRuns ==
    TwoRunsSecondResumed =>
        \A rec \in remote :
            (InitialStart <= rec[3] /\ rec[3] < args[2].end_time)
               => (DeliveredIn(rec, 1) \/ DeliveredIn(rec, 2))

\* C8 witness: after two such runs, a source had one record delivered by the
\* first run and a later record delivered by the second run only.
C8_Witness ==
    /\ TwoRunsSecondResumed
    /\ \E a, b \in remote :
          /\ a[1] = b[1] /\ a[2] = b[2] /\ a[3] < b[3]
          /\ DeliveredIn(a, 1)
          /\ ~DeliveredIn(b, 1) /\ DeliveredIn(b, 2)

\* C9: after two complete runs, the second resuming from the state the first
\* persisted, no record handed to the sink in the first run was handed to it
\* again in the second.
C9_NoRedelivery ==
    TwoRunsSecondResumed =>
        \A rec \in remote : ~(DeliveredIn(rec, 1) /\ DeliveredIn(rec, 2))

----------------------------------------------------------------------------
(* Claim about dict_get *)

RECURSIVE Join(_)
Join(segments) ==
    IF Len(segments) = 0 THEN <<>>
    ELSE IF Len(segments) = 1 THEN segments[1]
    ELSE segments[1] \o <<".">> \o Join(Tail(segments))

\* The value reached from vals by the first n of the segments: None when a
\* segment is missing or the value reached before it is not a dict.
RECURSIVE Reached(_, _, _)
Reached(vals, segments, n) ==
    IF n = 0 THEN Some(vals)
    ELSE LET before == Reached(vals, segments, n - 1)
         IN  IF /\ before # None
                /\ before[1][1] = "dict"
                /\ segments[n] \in DOMAIN before[1][2]
             THEN Some(before[1][2][segments[n]])
             ELSE None

\* C10: the segments dict_get follows are the parts of key between its dots;
\* it returns the value reached by following all of them through nested dicts,
\* None when a segment is missing or the value reached is not a dict, and it
\* never raises.
C10_DictGet ==
    dg_pc = "returned" =>
        LET segments == split(dg_key)
            reached == Reached(dg_values, segments, Len(segments))
        IN  /\ Join(segments) = dg_key
            /\ \A k \in 1..Len(segments) :
                  \A c \in 1..Len(segments[k]) : segments[k][c] # "."
            /\ dg_result # Raised
            /\ dg_result = (IF reached # None THEN reached[1] ELSE NoneVal)

\* C10 witness: dict_get({a: {b: 10}}, 'a.b') has returned 10.
C10_Witness ==
    /\ dg_pc = "returned"
    /\ dg_key = <<"a", ".", "b">>
    /\ dg_values = Dict([k \in {<<"a">>} |-> Dict([j \in {<<"b">>} |-> IntVal(10)])])
    /\ dg_result = IntVal(10)

----------------------------------------------------------------------------
(* Claims about the start times, failures and the paginator *)

\* The state file as download loaded it for the run in progress: the file is
\* written only when the run is over.
Loaded == IF stateFile = None THEN EmptyDict ELSE stateFile[1]

InRun == dpc \in {"running", "returned", "failed"}

\* The start the claim prescribes for a pair in the run in progress.
PrescribedStart(pair) ==
    IF args[run].start_time # None
    THEN Max(FirstSeenAt, args[run].start_time[1])
    ELSE IF StoredAt(Loaded, pair[1], pair[2]) # None
         THEN StoredAt(Loaded, pair[1], pair[2])[1]
         ELSE FirstSeenAt

\* C11: in a run, download_devices has built exactly one sequence per (device,
\* measurement) pair; with a start-time override the sequence starts at the
\* later of first_seen_at and the override, whatever the state holds; without
\* one it starts at the pair's stored timestamp when the loaded state has one
\* and at first_seen_at when it has none (no file, no 'devices' key, no entry).
C11_StartTimeChoice ==
    InRun =>
        /\ Len(generators) = Cardinality(Pairs)
        /\ \A pair \in Pairs :
              \E i \in 1..Len(generators) :
                 /\ generators[i].device_id = pair[1]
                 /\ generators[i].measurement = pair[2]
                 /\ generators[i].start_time = PrescribedStart(pair)
                 /\ \A j \in 1..Len(generators) :
                       (generators[j].device_id = pair[1]
                          /\ generators[j].measurement = pair[2]) => j = i

\* C11 witness: a second run without override in which one pair starts at its
\* stored timestamp and another, which has no entry, at first_seen_at; the
\* stored timestamp is later than first_seen_at.
C11_Witness ==
    /\ run = 2 /\ dpc = "running"
    /\ args[2].start_time = None
    /\ \E p, q \in Pairs :
          /\ StoredAt(Loaded, p[1], p[2]) # None
          /\ StoredAt(Loaded, p[1], p[2])[1] > FirstSeenAt
          /\ StoredAt(Loaded, q[1], q[2]) = None
          /\ \E i, j \in 1..Len(generators) :
                /\ generators[i].device_id = p[1] /\ generators[i].measurement = p[2]
                /\ generators[i].start_time = StoredAt(Loaded, p[1], p[2])[1]
                /\ generators[j].device_id = q[1] /\ generators[j].measurement = q[2]
                /\ generators[j].start_time = FirstSeenAt

\* C12: the step in which write_points raises writes nothing to the sink and
\* leaves the state file as it is; once it has raised no further step of the
\* run is taken, so the state file is not written in that run; and at every
\* point every timestamp the state file holds is that of a record that a
\* successful write handed to the sink.
C12_WriteFailureAborts ==
    /\ [][dpc' = "failed" => (stateFile' = stateFile /\ sink' = sink)]_vars
    /\ [][dpc # "failed"]_vars
    /\ [](\A pair \in Pairs :
            StoredAt(Loaded, pair[1], pair[2]) # None
               => \E rec \in remote :
                     /\ rec[1] = pair[1] /\ rec[2] = pair[2]
                     /\ rec[3] = StoredAt(Loaded, pair[1], pair[2])[1]
                     /\ \E r \in Runs : DeliveredIn(rec, r))

\* C12 witness: a write of the second run has failed while the in-memory state
\* of a pair was ahead of the state file, which still holds what the first
\* run stored.
C12_Witness ==
    /\ run = 2 /\ dpc = "failed"
    /\ stateFile # None
    /\ \E pair \in Pairs :
          /\ StoredAt(Loaded, pair[1], pair[2]) # None
          /\ StoredAt(state, pair[1], pair[2]) # None
          /\ StoredAt(state, pair[1], pair[2])[1] > StoredAt(Loaded, pair[1], pair[2])[1]

\* The first instant of a calendar month.
IsMonthStart(t) == t % TicksPerDay = 0 /\ (t \div TicksPerDay) \in MonthStartDays

\* C13: for start < end and step = 1, month_sequence ends after finitely many
\* windows; the first window starts at start; every window starts before it
\* ends and before end; each window starts where the one before it ended;
\* every window ends at the first instant of a month; and when the sequence
\* has ended the last window ends at or after end, so that the windows cover
\* [start, end).
C13_MonthWindows ==
    LET g == generators[1]
        w == Records(received)
    IN  /\ [](g.start < g.end =>
               /\ \A k \in 1..Len(w) :
                     /\ w[k][1] < w[k][2]
                     /\ w[k][1] < g.end
                     /\ IsMonthStart(w[k][2])
                     /\ k = 1 => w[k][1] = g.start
                     /\ k > 1 => w[k][1] = w[k - 1][2]
               /\ g.pc = "finished" =>
                     (Len(w) >= 1 /\ w[Len(w)][2] >= g.end))
        /\ <>(g.pc = "finished")

\* C13 witness: a sequence started inside a month has ended after three
\* windows, the last of which ends after end.
C13_Witness ==
    LET g == generators[1]
        w == Records(received)
    IN  /\ g.kind = "month" /\ g.pc = "finished"
        /\ g.start < g.end
        /\ ~IsMonthStart(g.start)
        /\ Len(w) = 3
        /\ w[3][2] > g.end

----------------------------------------------------------------------------
(* Claims about when the resume state is updated *)

\* C14: whenever a measurement_sequence is suspended at its yield, that is, its
\* consumer holds the record it yielded and has not pulled again, the resume
\* state of the sequence's pair is that record's timestamp.
C14_StateIsLastReceived ==
    \A i \in 1..Len(generators) :
        (IsMeasurement(i) /\ generators[i].pc = "suspended")
           => StoredAt(state, generators[i].device_id, generators[i].measurement)
                 = Some(generators[i].cur[1][1])

\* C15: in every step that writes a batch to the sink, the state at the call
\* holds, for every point of the batch, a timestamp of the point's pair that is
\* at or after the point's time.
C15_StateAdvancedBeforeFlush ==
    [][Len(sink') > Len(sink) =>
          \A k \in 1..Len(sink'[Len(sink')].points) :
             LET point == sink'[Len(sink')].points[k]
                 stored == StoredAt(state, point.device, point.measurement)
             IN  /\ stored # None
                 /\ stored[1] >= point.time[2] * TicksPerDay + point.time[4]]_vars

\* The timestamps of the records of a pair that merge_sequences has emitted.
EmittedStamps(pair) ==
    {emitted[k][1][1] : k \in {n \in 1..Len(emitted) :
                                  /\ emitted[n][1][2] = pair[1]
                                  /\ emitted[n][1][3] = pair[2]}}

\* C16: at every point of a run, also once the consumer has abandoned the
\* merged stream, the stored timestamp of each pair is the one the run loaded
\* or that of a record of the pair that merge_sequences has emitted; so a
\* record held as a cursor and not emitted is not in the state.
C16_StateOnlyOfEmitted ==
    InRun =>
        \A pair \in Pairs :
            \/ StoredAt(state, pair[1], pair[2]) = StoredAt(Loaded, pair[1], pair[2])
            \/ /\ StoredAt(state, pair[1], pair[2]) # None
               /\ StoredAt(state, pair[1], pair[2])[1] \in EmittedStamps(pair)

\* C16 witness: the consumer has abandoned the merged stream (a write failed)
\* while the cursor of one pair held a record never emitted, of which the state
\* has no trace, and the state of another pair had been advanced.
C16_Witness ==
    /\ dpc = "failed" /\ cpc = "abandoned"
    /\ \E i \in 1..Len(values) :
          /\ values[i] # None
          /\ i # min_index
          /\ StoredAt(state, values[i][1][2], values[i][1][3]) = None
    /\ \E pair \in Pairs :
          /\ StoredAt(state, pair[1], pair[2]) # None
          /\ StoredAt(state, pair[1], pair[2]) # StoredAt(Loaded, pair[1], pair[2])

----------------------------------------------------------------------------
(* Claims about the cursors and the pulls of merge_sequences *)

\* C17: a cursor that is exhausted (None: its pull ended in StopAsyncIteration)
\* stays exhausted and its generator is not pulled again; a generator that has
\* ended has an exhausted cursor as soon as its pull has returned; and every
\* emission selects a cursor that holds a record, never an exhausted one.
C17_ExhaustedStaysExhausted ==
    /\ [][\A i \in 1..Len(values) :
             values[i] = None
                => /\ values'[i] = None
                   /\ generators'[i] = generators[i]
                   /\ awaited' # i]_vars
    /\ [](\A i \in 1..Len(values) :
             (generators[i].pc = "finished" /\ awaited # i) => values[i] = None)
    /\ [][Len(emitted') > Len(emitted)
             => /\ values[emittedFrom'[Len(emittedFrom')]] # None
                /\ emitted'[Len(emitted')] # None]_vars

\* C17 witness: the cursor of the first input is exhausted after its records
\* were emitted, and since then the second input was emitted twice.
C17_Witness ==
    /\ mpc = "suspended"
    /\ Len(values) = 2
    /\ values[1] = None /\ values[2] # None
    /\ Len(inputs[1]) >= 1
    /\ Len(emitted) >= 3
    /\ emittedFrom[Len(emittedFrom)] = 2
    /\ emittedFrom[Len(emittedFrom) - 1] = 2

\* The number of items input i has handed out to its pulls.
Consumed(i) == Len(inputs[i]) - Len(generators[i].items)

\* C18: a pull of an input starts only when no pull is in progress; before the
\* first emission the inputs are pulled in turn, each once, and the first
\* emission comes when all have been pulled; after it, the input pulled is the
\* one just emitted, pulled once, when none of its records is pending. At
\* every point an input has at most one record pulled and not emitted, and at
\* most one generator is running, the one awaited.
C18_PullDiscipline ==
    /\ [][\A i \in 1..Len(generators) :
             (awaited' = i /\ awaited # i)
                => /\ awaited = 0
                   /\ emitted = <<>> => (mpc = "fill" /\ i = Len(values) + 1)
                   /\ emitted # <<>> =>
                         /\ mpc = "resumed"
                         /\ i = emittedFrom[Len(emittedFrom)]
                         /\ Consumed(i) = Len(EmittedOf(i, Len(emitted)))]_vars
    /\ [][(emitted = <<>> /\ emitted' # <<>>)
             => /\ Len(values) = Len(generators)
                /\ \A i \in 1..Len(generators) :
                      Consumed(i) = (IF inputs[i] = <<>> THEN 0 ELSE 1)]_vars
    /\ [](\A i \in 1..Len(generators) :
             /\ Consumed(i) - Len(EmittedOf(i, Len(emitted))) \in {0, 1}
             /\ Running(generators[i]) => awaited = i)

\* C18 witness: the second input is being pulled right after its record was
\* emitted, while the first input's record, pulled at the start, is pending.
C18_Witness ==
    /\ mpc = "resumed"
    /\ Len(generators) = 2
    /\ awaited = 2 /\ Running(generators[2])
    /\ emittedFrom[Len(emittedFrom)] = 2
    /\ values[1] # None
    /\ Consumed(1) = 1 /\ EmittedOf(1, Len(emitted)) = <<>>

----------------------------------------------------------------------------
(* Claims about a failing fetch and about values beyond end_time *)

\* C19: once the fetch function has raised in a measurement_sequence, the
\* sequence has ended with that exception at that very call; the one step
\* merge_sequences can and does take is to end with the exception too, with no
\* cursor written, no record emitted and no generator pulled; the one step the
\* consumer can and does take is to receive the exception; and a cursor is
\* exhausted only when its generator ended with StopAsyncIteration.
C19_FetchFailurePropagates ==
    /\ [](\A i \in 1..Len(generators) :
             LET g == generators[i]
             IN  /\ (g.fail_at > 0 /\ Len(g.fetched) >= g.fail_at)
                       => (g.pc = "raised" /\ Len(g.fetched) = g.fail_at)
                 /\ g.pc = "raised" => Len(g.fetched) = g.fail_at)
    /\ [](\A i \in 1..Len(values) :
             values[i] = None => generators[i].pc = "finished")
    /\ []((awaited # 0 /\ generators[awaited].pc = "raised") => ENABLED MergeRaise)
    /\ []((mpc = "raised" /\ cpc = "awaiting") => ENABLED TestRaised)
    /\ [][(awaited # 0 /\ generators[awaited].pc = "raised")
             => /\ mpc' = "raised"
                /\ values' = values /\ emitted' = emitted
                /\ generators' = generators]_vars
    /\ [][mpc = "raised"
             => /\ cpc = "awaiting" /\ cpc' = "raised"
                /\ mpc' = "raised"
                /\ values' = values /\ emitted' = emitted
                /\ generators' = generators]_vars

\* C19 witness: after a record was emitted, the refill of its cursor met a
\* failing fetch of a later window, and the consumer received the exception.
C19_Witness ==
    /\ cpc = "raised" /\ mpc = "raised"
    /\ Len(generators) = 1 /\ IsMeasurement(1)
    /\ generators[1].pc = "raised"
    /\ generators[1].fail_at = 2
    /\ Len(emitted) >= 1
    /\ values[1] # None

\* The answer of the fetch function to call number k of a scripted sequence.
PageOf(g, k) == IF k <= Len(g.script) THEN g.script[k] ELSE <<>>

\* C20: a measurement_sequence that has met a value beyond end_time has
\* stopped: no window is fetched after a page holding such a value, and a
\* record it yields is preceded in its page by no such value.
C20_StopsAtFirstBeyondEnd ==
    \A i \in 1..Len(generators) :
        (IsMeasurement(i) /\ generators[i].get = "script") =>
            LET g == generators[i]
            IN  /\ \A k \in 1..(Len(g.fetched) - 1) :
                      \A n \in 1..Len(PageOf(g, k)) : PageOf(g, k)[n] <= g.end_time
                /\ g.pc = "suspended" =>
                      LET page == PageOf(g, Len(g.fetched))
                      IN  \A n \in 1..(Len(page) - Len(g.values)) :
                             page[n] <= g.end_time

----------------------------------------------------------------------------
(* Claim about the keys of the state a sequence writes *)

\* d2 is d with the value under key k possibly replaced or added, and nothing
\* else added, removed or changed.
SameButAt(d, d2, k) ==
    /\ Keys(d2) = Keys(d) \cup {k}
    /\ \A x \in Keys(d) \ {k} : d2[2][x] = d[2][x]

\* From st to st2 only state['devices'][device_id][measurement] was written.
WroteOnly(st, st2, device_id, measurement) ==
    LET devs == IF <<"devices">> \in Keys(st) THEN st[2][<<"devices">>] ELSE EmptyDict
        devs2 == st2[2][<<"devices">>]
        dev == IF device_id \in Keys(devs) THEN devs[2][device_id] ELSE EmptyDict
    IN  /\ SameButAt(st, st2, <<"devices">>)
        /\ SameButAt(devs, devs2, device_id)
        /\ SameButAt(dev, devs2[2][device_id], measurement)

\* C21: a step of a run that changes the state is the step of one
\* measurement_sequence and changes nothing but the entry of that sequence's
\* (device_id, measurement): the other pairs' entries and the other top-level
\* keys are as before; and the sequences download_devices built are for
\* pairwise different pairs.
C21_OwnKeyOnly ==
    /\ [][(run' = run /\ state' # state)
             => \E i \in 1..Len(generators) :
                   /\ generators'[i] # generators[i]
                   /\ \A j \in 1..Len(generators) :
                         j # i => generators'[j] = generators[j]
                   /\ WroteOnly(state, state', generators[i].device_id,
                                generators[i].measurement)]_vars
    /\ [](InRun =>
             \A i, j \in 1..Len(generators) :
                (/\ generators[i].device_id = generators[j].device_id
                 /\ generators[i].measurement = generators[j].measurement) => i = j)

\* C21 witness: in a second run, whose state was loaded with the session's
\* top-level keys, the entry of one pair has been advanced while another pair
\* of the same device holds an entry.
C21_Witness ==
    /\ run = 2 /\ dpc = "running"
    /\ <<"access_token">> \in Keys(state)
    /\ \E p, q \in Pairs :
          /\ p # q /\ p[1] = q[1]
          /\ StoredAt(Loaded, p[1], p[2]) # None
          /\ StoredAt(state, p[1], p[2]) # StoredAt(Loaded, p[1], p[2])
          /\ StoredAt(state, q[1], q[2]) # None

====
